---- MODULE Spec2Model ----
(***************************************************************************)
(* Cloudflare MCP server: the tool functions of claudeflare_mcp/__init__.py *)
(* over the CloudflareHandler of claudeflare_mcp/cf_handler.py.            *)
(*                                                                         *)
(* Python strings are sequences of tokens: a literal part of an f-string   *)
(* is one token, an interpolated value is spliced in with \o, the empty    *)
(* string is << >>.  Chinese literals are written in pinyin (TLA+ strings  *)
(* are ASCII): wuxiao = "invalid", bu cunzai = "does not exist",           *)
(* lianjie ... shibai = "connecting ... failed".                           *)
(***************************************************************************)
EXTENDS Integers, Sequences, FiniteSets, TLC

VARIABLES
    CF_API_TOKEN,   \* cf_handler.py:18, read once at import
    CF_API_KEY,     \* cf_handler.py:19
    CF_API_EMAIL,   \* cf_handler.py:20
    pc,             \* "idle" | "awaiting" (suspended on an upstream call) | "done"
    tool,           \* the tool function being run
    args,           \* its arguments
    sent,           \* the upstream requests this invocation has issued, in order
    outcome,        \* what the upstream answered to the last request
    exc,            \* the exception raised inside the tool's try block, if any
    envelope,       \* the JSON object the tool returned
    propagated,     \* an exception that left the tool function uncaught
    received,       \* the upstream answers this invocation has received, in order
    records,        \* upstream: the DNS records of one zone, by record id
    records0,       \* the upstream records before any caller ran
    calls,          \* concurrent update_dns_record invocations, by caller
    version,        \* upstream: the generation of its state, one more per change,
                    \* counted from the caller's first invocation
    clock,          \* datetime.now(timezone.utc), in seconds from then
    memo,           \* upstream: the request it last served to the caller in this
                    \* generation, and the answer
    previous        \* the upstream generation at the caller's first invocation, and
                    \* the result of that invocation once the caller repeats it

\* one invocation at a time, against an upstream that may answer anything
toolVars == <<pc, tool, args, sent, outcome, exc, envelope, propagated, received>>

\* concurrent invocations against one upstream zone
dnsVars == <<records, records0, calls>>

\* repeated invocations against an upstream whose state persists
upVars == <<version, clock, memo, previous>>

vars == <<CF_API_TOKEN, CF_API_KEY, CF_API_EMAIL, pc, tool, args, sent, outcome,
          exc, envelope, propagated, received, records, records0, calls,
          version, clock, memo, previous>>

-----------------------------------------------------------------------------
(* Bounds *)

\* number of distinct identifiers of each kind (zones, records, ...)
MaxIds == 2

\* changes of the upstream state that are followed
MaxVersion == 1

\* seconds the clock advances
MaxTicks == 1

Ident(prefix) == {<<prefix, ToString(i)>> : i \in 1..MaxIds}

ZoneIds     == Ident("zone-")
RecordIds   == Ident("rec-")
HostnameIds == Ident("ch-")
ScriptNames == Ident("worker-")
AccountIds  == {<<"acct-1">>}

\* longest "result" list of a settings answer
MaxSettings == 2

\* longest httpRequests1hGroups list of an analytics answer
MaxBuckets == 2

\* most items an upstream collection holds
MaxItems == 2

\* values of one credential environment variable: unset (empty) or set
CredValues(v) == {<< >>, <<v>>}

-----------------------------------------------------------------------------
(* Values *)

NoneValue == [type |-> "NoneType"]

Raise(kind, text) == [type |-> "exception", kind |-> kind, text |-> text]

\* str(exc)
StrOf(e) == e.text

\* `sub in s` on Python strings
Contains(s, sub) ==
    \E i \in 0..(Len(s) - Len(sub)) : SubSeq(s, i + 1, i + Len(sub)) = sub

\* Exception classes: each class's direct base.  The cloudflare and httpx
\* classes are the libraries' own, rooted in Exception.
BaseOf(kind) ==
    CASE kind = "APITimeoutError"       -> "APIConnectionError"
      [] kind = "APIConnectionError"    -> "APIError"
      [] kind = "AuthenticationError"   -> "APIStatusError"
      [] kind = "PermissionDeniedError" -> "APIStatusError"
      [] kind = "NotFoundError"         -> "APIStatusError"
      [] kind = "BadRequestError"       -> "APIStatusError"
      [] kind = "APIStatusError"        -> "APIError"
      [] kind = "APIError"              -> "Exception"
      [] kind = "HTTPStatusError"       -> "HTTPError"
      [] kind = "ConnectError"          -> "HTTPError"
      [] kind = "ReadTimeout"           -> "HTTPError"
      [] kind = "HTTPError"             -> "Exception"
      [] kind = "ValueError"            -> "Exception"
      [] kind = "TypeError"             -> "Exception"
      [] kind = "AttributeError"        -> "Exception"
      [] OTHER                          -> "object"

RECURSIVE IsInstance(_, _)
\* isinstance(exc, cls), as an except clause tests it
IsInstance(kind, cls) ==
    IF kind = cls THEN TRUE
    ELSE IF kind = "object" THEN FALSE
    ELSE \E base \in {BaseOf(kind)} : IsInstance(base, cls)

-----------------------------------------------------------------------------
(* The tools *)

ZoneTools ==
    {"list_dns_records", "create_dns_record", "get_zone_settings", "purge_cache",
     "get_cache_settings", "get_speed_settings", "list_firewall_rules",
     "get_security_settings", "get_ssl_settings", "list_ssl_certificates",
     "list_custom_hostnames", "create_custom_hostname", "get_email_routing",
     "list_email_routing_rules", "get_dnssec", "get_dns_settings",
     "get_zone_analytics", "list_worker_routes"}

RecordTools   == {"update_dns_record", "delete_dns_record"}
HostnameTools == {"update_custom_hostname", "delete_custom_hostname"}
AccountTools  == {"list_ai_models", "run_ai", "list_workers", "get_worker"}

Tools == {"list_zones"} \cup ZoneTools \cup RecordTools \cup HostnameTools
         \cup AccountTools

\* handler methods that call the REST API directly through httpx; the others
\* go through the SDK client
HttpxTools ==
    {"get_zone_settings", "get_cache_settings", "get_speed_settings",
     "get_security_settings", "get_dns_settings", "get_zone_analytics",
     "list_ai_models", "run_ai", "get_worker"}

Transport(t) == IF t \in HttpxTools THEN "httpx" ELSE "sdk"

\* the tools that list a collection through the SDK's paginated list call
ListTools ==
    {"list_zones", "list_dns_records", "list_firewall_rules",
     "list_ssl_certificates", "list_custom_hostnames",
     "list_email_routing_rules", "list_workers", "list_worker_routes"}

\* the tools that read GET /zones/{zone_id}/settings
SettingsTools ==
    {"get_zone_settings", "get_cache_settings", "get_speed_settings",
     "get_security_settings"}

\* the longest files / tags argument, in tokens
MaxChars == 3

\* a comma-separated argument: text, commas and blanks in any order
CommaSeparated(text) ==
    UNION {[1..k -> {text, ",", " "}] : k \in 0..MaxChars}

NoArgs ==
    [zone_id |-> << >>, record_id |-> << >>, custom_hostname_id |-> << >>,
     script_name |-> << >>, account_id |-> << >>, model_name |-> << >>,
     files |-> << >>, tags |-> << >>, purge_everything |-> FALSE,
     content |-> << >>, ttl |-> 1, proxied |-> "None"]

\* the argument tuples a caller may pass to tool t
ArgsOf(t) ==
    IF t = "list_zones" THEN {NoArgs}
    ELSE IF t = "purge_cache" THEN
        {[NoArgs EXCEPT !.zone_id = z, !.files = f, !.tags = g,
                        !.purge_everything = e] :
            z \in ZoneIds, f \in CredValues("https://a/x"),
            g \in CredValues("tag-a"), e \in BOOLEAN}
        \cup
        {[NoArgs EXCEPT !.zone_id = z, !.files = f, !.tags = g] :
            z \in ZoneIds, f \in CommaSeparated("https://a/x"),
            g \in CredValues("tag-a")}
        \cup
        {[NoArgs EXCEPT !.zone_id = z, !.files = f, !.tags = g] :
            z \in ZoneIds, f \in CredValues("https://a/x"),
            g \in CommaSeparated("tag-a")}
    ELSE IF t \in ZoneTools THEN {[NoArgs EXCEPT !.zone_id = z] : z \in ZoneIds}
    ELSE IF t = "update_dns_record" THEN
        {[NoArgs EXCEPT !.zone_id = z, !.record_id = r, !.content = <<"9.9.9.9">>,
                        !.proxied = x] :
            z \in ZoneIds, r \in RecordIds, x \in {"True", "False", "None"}}
    ELSE IF t \in RecordTools THEN
        {[NoArgs EXCEPT !.zone_id = z, !.record_id = r] :
            z \in ZoneIds, r \in RecordIds}
    ELSE IF t \in HostnameTools THEN
        {[NoArgs EXCEPT !.zone_id = z, !.custom_hostname_id = h] :
            z \in ZoneIds, h \in HostnameIds}
    ELSE IF t = "get_worker" THEN
        {[NoArgs EXCEPT !.account_id = c, !.script_name = s] :
            c \in AccountIds, s \in ScriptNames}
    ELSE IF t = "run_ai" THEN
        {[NoArgs EXCEPT !.account_id = c, !.model_name = <<"@cf/meta/llama-3.1-8b-instruct">>] :
            c \in AccountIds}
    ELSE {[NoArgs EXCEPT !.account_id = c] : c \in AccountIds}

-----------------------------------------------------------------------------
(* Auth Resolver: cf_handler.py:85-105 *)

ConfigErrorText ==
    <<"xuyao shezhi CF_API_TOKEN huo CF_API_KEY + CF_API_EMAIL, qing jiancha MCP peizhi de env ziduan">>

\* the mutant resolver tries the key pair before the token
GetClientKeyFirst ==
    IF CF_API_KEY # << >> /\ CF_API_EMAIL # << >>
    THEN [type |-> "client", api_email |-> CF_API_EMAIL, api_key |-> CF_API_KEY]
    ELSE IF CF_API_TOKEN # << >>
    THEN [type |-> "client", api_token |-> CF_API_TOKEN]
    ELSE Raise("ValueError", ConfigErrorText)

\* CloudflareHandler._get_client: the SDK client, or the ValueError
get_client ==
    IF CF_API_TOKEN # << >>
    THEN [type |-> "client", api_token |-> CF_API_TOKEN]
    ELSE IF CF_API_KEY # << >> /\ CF_API_EMAIL # << >>
    THEN [type |-> "client", api_email |-> CF_API_EMAIL, api_key |-> CF_API_KEY]
    ELSE Raise("ValueError", ConfigErrorText)

\* the mutant header resolver tries the key pair before the token
GetAuthHeadersKeyFirst ==
    IF CF_API_KEY # << >> /\ CF_API_EMAIL # << >>
    THEN [type |-> "headers",
          headers |-> ("X-Auth-Email" :> CF_API_EMAIL) @@ ("X-Auth-Key" :> CF_API_KEY)]
    ELSE IF CF_API_TOKEN # << >>
    THEN [type |-> "headers",
          headers |-> ("Authorization" :> (<<"Bearer ">> \o CF_API_TOKEN))]
    ELSE Raise("ValueError", ConfigErrorText)

\* CloudflareHandler._get_auth_headers: the header map, or the ValueError
get_auth_headers ==
    IF CF_API_TOKEN # << >>
    THEN [type |-> "headers",
          headers |-> ("Authorization" :> (<<"Bearer ">> \o CF_API_TOKEN))]
    ELSE IF CF_API_KEY # << >> /\ CF_API_EMAIL # << >>
    THEN [type |-> "headers",
          headers |-> ("X-Auth-Email" :> CF_API_EMAIL) @@ ("X-Auth-Key" :> CF_API_KEY)]
    ELSE Raise("ValueError", ConfigErrorText)

-----------------------------------------------------------------------------
(* Response Envelope Builder: __init__.py:57-64 *)

\* json.dumps raises TypeError on a value it cannot encode (an SDK model
\* object passed through by the handler)
JsonTypeError == Raise("TypeError", <<"Object of type ", "Model", " is not JSON serializable">>)

\* the mutant _error keeps the message in data as well
ErrorWithData(message) ==
    [status |-> "error", data |-> [type |-> "str", value |-> message],
     message |-> message]

\* _error(message)
error(message) ==
    [status |-> "error", data |-> NoneValue, message |-> message]

\* _success(data): the envelope, or json.dumps's TypeError
success(data) ==
    IF data.encodable
    THEN [status |-> "success", data |-> data, message |-> << >>]
    ELSE JsonTypeError

-----------------------------------------------------------------------------
(* Exception-to-Message Mapper: the except clauses of each tool function *)

AuthMsg     == <<"CF_API_TOKEN wuxiao">>
AuthMsgLong == AuthMsg \o <<", qing jiancha Token shifou zhengque">>
PermMsg     == <<"wu quanxian qingchu huancun, qing jiancha API Token de Cache Purge quanxian">>
ConnMsg(e)  == <<"lianjie Cloudflare API shibai: ">> \o StrOf(e)

ZoneNotFound(a)     == <<"Zone ">> \o a.zone_id \o <<" bu cunzai">>
RecordNotFound(a)   == <<"DNS jilu ">> \o a.record_id \o <<" bu cunzai">>
HostnameNotFound(a) == <<"Custom hostname ">> \o a.custom_hostname_id \o <<" bu cunzai">>
WorkerNotFound(a)   == <<"Worker jiaoben ">> \o a.script_name \o <<" bu cunzai">>

\* the mutant chain of purge_cache has lost its PermissionDeniedError clause
ExceptClausesNoPerm(t) ==
    IF t \in {"list_zones", "list_ai_models", "run_ai", "list_workers"}
    THEN <<"AuthenticationError", "APIConnectionError", "Exception">>
    ELSE IF t \in {"delete_dns_record", "get_zone_settings", "get_cache_settings",
                   "get_speed_settings", "get_security_settings",
                   "update_custom_hostname", "delete_custom_hostname",
                   "get_zone_analytics"}
    THEN <<"NotFoundError", "Exception">>
    ELSE <<"NotFoundError", "AuthenticationError", "Exception">>

\* the mutant chain of get_zone_settings has lost its final except Exception
ExceptClausesNoGeneric(t) ==
    IF t \in {"list_zones", "list_ai_models", "run_ai", "list_workers"}
    THEN <<"AuthenticationError", "APIConnectionError", "Exception">>
    ELSE IF t = "purge_cache"
    THEN <<"NotFoundError", "PermissionDeniedError", "AuthenticationError", "Exception">>
    ELSE IF t = "get_zone_settings"
    THEN <<"NotFoundError">>
    ELSE IF t \in {"delete_dns_record", "get_cache_settings",
                   "get_speed_settings", "get_security_settings",
                   "update_custom_hostname", "delete_custom_hostname",
                   "get_zone_analytics"}
    THEN <<"NotFoundError", "Exception">>
    ELSE <<"NotFoundError", "AuthenticationError", "Exception">>

\* the classes tool t's except clauses name, in source order
ExceptClauses(t) ==
    IF t \in {"list_zones", "list_ai_models", "run_ai", "list_workers"}
    THEN <<"AuthenticationError", "APIConnectionError", "Exception">>
    ELSE IF t = "purge_cache"
    THEN <<"NotFoundError", "PermissionDeniedError", "AuthenticationError", "Exception">>
    ELSE IF t \in {"delete_dns_record", "get_zone_settings", "get_cache_settings",
                   "get_speed_settings", "get_security_settings",
                   "update_custom_hostname", "delete_custom_hostname",
                   "get_zone_analytics"}
    THEN <<"NotFoundError", "Exception">>
    ELSE <<"NotFoundError", "AuthenticationError", "Exception">>

\* the mutant message of update_dns_record names the zone, not the record
NotFoundMessageZoneOnly(t, a) ==
    IF t = "delete_dns_record" THEN RecordNotFound(a)
    ELSE IF t \in HostnameTools THEN HostnameNotFound(a)
    ELSE IF t = "get_worker" THEN WorkerNotFound(a)
    ELSE ZoneNotFound(a)

\* the message of tool t's except cloudflare.NotFoundError clause
NotFoundMessage(t, a) ==
    IF t \in RecordTools THEN RecordNotFound(a)
    ELSE IF t \in HostnameTools THEN HostnameNotFound(a)
    ELSE IF t = "get_worker" THEN WorkerNotFound(a)
    ELSE ZoneNotFound(a)

\* the mutant generic clause labels the text
ClauseMessageLabelled(t, cls, a, e) ==
    CASE cls = "NotFoundError"         -> NotFoundMessage(t, a)
      [] cls = "AuthenticationError"   -> IF t = "list_zones" THEN AuthMsgLong ELSE AuthMsg
      [] cls = "PermissionDeniedError" -> PermMsg
      [] cls = "APIConnectionError"    -> ConnMsg(e)
      [] OTHER                         -> <<"Error: ">> \o StrOf(e)

\* the message the clause `except cls` of tool t builds for exception e
ClauseMessage(t, cls, a, e) ==
    CASE cls = "NotFoundError"         -> NotFoundMessage(t, a)
      [] cls = "AuthenticationError"   -> IF t = "list_zones" THEN AuthMsgLong ELSE AuthMsg
      [] cls = "PermissionDeniedError" -> PermMsg
      [] cls = "APIConnectionError"    -> ConnMsg(e)
      [] OTHER                         -> StrOf(e)

\* indices of the clauses of t that match e
Matching(t, e) == {i \in DOMAIN ExceptClauses(t) : IsInstance(e.kind, ExceptClauses(t)[i])}

Min(S) == CHOOSE x \in S : \A y \in S : x <= y

\* the try/except of tool t on exception e: the first matching clause's
\* envelope, or the exception itself when no clause matches
MapException(t, a, e) ==
    IF Matching(t, e) = {} THEN e
    ELSE error(ClauseMessage(t, ExceptClauses(t)[Min(Matching(t, e))], a, e))

-----------------------------------------------------------------------------
(* Resource Handler: CloudflareHandler of cf_handler.py *)

IsException(x) == "kind" \in DOMAIN x

CF_API_BASE == <<"https://api.cloudflare.com/client/v4">>

\* What calling the handler method from the tool raises before the method
\* body runs: the tool passes min_tls_version to a two-parameter
\* create_custom_hostname, and CloudflareHandler defines no
\* update_custom_hostname / delete_custom_hostname.
MethodError(t) ==
    IF t = "create_custom_hostname"
    THEN Raise("TypeError",
               <<"CloudflareHandler.create_custom_hostname() takes 3 positional arguments but 4 were given">>)
    ELSE IF t \in HostnameTools
    THEN Raise("AttributeError",
               <<"'CloudflareHandler' object has no attribute '", t, "'">>)
    ELSE NoneValue

\* the URL an httpx-based handler method requests
URL(t, a) ==
    IF t \in {"get_zone_settings", "get_cache_settings", "get_speed_settings",
              "get_security_settings"}
    THEN CF_API_BASE \o <<"/zones/">> \o a.zone_id \o <<"/settings">>
    ELSE IF t = "get_dns_settings"
    THEN CF_API_BASE \o <<"/zones/">> \o a.zone_id \o <<"/dns_settings">>
    ELSE IF t = "get_zone_analytics"
    THEN CF_API_BASE \o <<"/graphql">>
    ELSE IF t = "list_ai_models"
    THEN CF_API_BASE \o <<"/accounts/">> \o a.account_id \o <<"/ai/models/search">>
    ELSE IF t = "run_ai"
    THEN CF_API_BASE \o <<"/accounts/">> \o a.account_id \o <<"/ai/run/">> \o a.model_name
    ELSE CF_API_BASE \o <<"/accounts/">> \o a.account_id \o <<"/workers/scripts">>

\* the mutant list_dns_records calls the delete of the records API
SdkCallListDeletes(t) ==
    CASE t = "list_zones"               -> <<"zones.list">>
      [] t = "list_dns_records"         -> <<"dns.records.delete">>
      [] t = "create_dns_record"        -> <<"dns.records.create">>
      [] t = "update_dns_record"        -> <<"dns.records.get">>
      [] t = "delete_dns_record"        -> <<"dns.records.delete">>
      [] t = "purge_cache"              -> <<"cache.purge">>
      [] t = "list_firewall_rules"      -> <<"firewall.access_rules.list">>
      [] t = "get_ssl_settings"         -> <<"ssl.universal.settings.get">>
      [] t = "list_ssl_certificates"    -> <<"ssl.certificate_packs.list">>
      [] t = "list_custom_hostnames"    -> <<"custom_hostnames.list">>
      [] t = "create_custom_hostname"   -> <<"custom_hostnames.create">>
      [] t = "get_email_routing"        -> <<"email_routing.get">>
      [] t = "list_email_routing_rules" -> <<"email_routing.rules.list">>
      [] t = "get_dnssec"               -> <<"dns.dnssec.get">>
      [] t = "list_workers"             -> <<"workers.scripts.list">>
      [] OTHER                          -> <<"workers.routes.list">>

\* the SDK method an SDK-based handler method awaits first
SdkCall(t) ==
    CASE t = "list_zones"               -> <<"zones.list">>
      [] t = "list_dns_records"         -> <<"dns.records.list">>
      [] t = "create_dns_record"        -> <<"dns.records.create">>
      [] t = "update_dns_record"        -> <<"dns.records.get">>
      [] t = "delete_dns_record"        -> <<"dns.records.delete">>
      [] t = "purge_cache"              -> <<"cache.purge">>
      [] t = "list_firewall_rules"      -> <<"firewall.access_rules.list">>
      [] t = "get_ssl_settings"         -> <<"ssl.universal.settings.get">>
      [] t = "list_ssl_certificates"    -> <<"ssl.certificate_packs.list">>
      [] t = "list_custom_hostnames"    -> <<"custom_hostnames.list">>
      [] t = "create_custom_hostname"   -> <<"custom_hostnames.create">>
      [] t = "get_email_routing"        -> <<"email_routing.get">>
      [] t = "list_email_routing_rules" -> <<"email_routing.rules.list">>
      [] t = "get_dnssec"               -> <<"dns.dnssec.get">>
      [] t = "list_workers"             -> <<"workers.scripts.list">>
      [] OTHER                          -> <<"workers.routes.list">>

Request(transport, op, auth, body) ==
    [type |-> "request", transport |-> transport, op |-> op, auth |-> auth,
     body |-> body]

\* the identifiers a call names
Target(a) ==
    [zone_id |-> a.zone_id, record_id |-> a.record_id,
     account_id |-> a.account_id]

RECURSIVE split(_)
\* s.split(","): the segments between the commas, empty ones included
split(s) ==
    IF s = << >> THEN << << >> >>
    ELSE IF Head(s) = "," THEN << << >> >> \o split(Tail(s))
    ELSE LET rest == split(Tail(s)) IN
         << <<Head(s)>> \o Head(rest) >> \o Tail(rest)

RECURSIVE lstrip(_)
lstrip(s) == IF s # << >> /\ Head(s) = " " THEN lstrip(Tail(s)) ELSE s

RECURSIVE rstrip(_)
rstrip(s) ==
    IF s # << >> /\ s[Len(s)] = " " THEN rstrip(SubSeq(s, 1, Len(s) - 1)) ELSE s

\* f.strip()
strip(s) == rstrip(lstrip(s))

\* [f.strip() for f in files.split(",") if f.strip()]
file_list(files) ==
    LET stripped == [i \in 1..Len(split(files)) |-> strip(split(files)[i])] IN
    SelectSeq(stripped, LAMBDA f : f # << >>)

\* timedelta(hours=24)
WindowHours == 24

\* what an httpx request carries besides its URL: the identifiers, and for
\* get_zone_analytics the query variables zoneTag, start and end, the window
\* of the last 24 hours up to now, formatted to the second
HttpBody(t, a) ==
    IF t = "get_zone_analytics"
    THEN [zoneTag |-> a.zone_id, start |-> clock - WindowHours * 3600,
          end |-> clock]
    ELSE Target(a)

\* "one of purge_everything=True, files or tags must be specified"
PurgeValidationText ==
    <<"bixu zhiding purge_everything=True, files huo tags zhi yi">>

\* the mutant tests files before purge_everything
PurgeFilesFirst(a, client) ==
    IF a.files # << >>
    THEN Request("sdk", SdkCall("purge_cache"), client,
                 [zone_id |-> a.zone_id, files |-> file_list(a.files)])
    ELSE IF a.purge_everything
    THEN Request("sdk", SdkCall("purge_cache"), client,
                 [zone_id |-> a.zone_id, purge_everything |-> TRUE])
    ELSE IF a.tags # << >>
    THEN Request("sdk", SdkCall("purge_cache"), client,
                 [zone_id |-> a.zone_id, tags |-> file_list(a.tags)])
    ELSE Raise("ValueError", PurgeValidationText)

\* the mutant purges everything when no target is given
PurgeDefaultsToEverything(a, client) ==
    IF a.purge_everything \/ (a.files = << >> /\ a.tags = << >>)
    THEN Request("sdk", SdkCall("purge_cache"), client,
                 [zone_id |-> a.zone_id, purge_everything |-> TRUE])
    ELSE IF a.files # << >>
    THEN Request("sdk", SdkCall("purge_cache"), client,
                 [zone_id |-> a.zone_id, files |-> file_list(a.files)])
    ELSE Request("sdk", SdkCall("purge_cache"), client,
                 [zone_id |-> a.zone_id, tags |-> file_list(a.tags)])

\* CloudflareHandler.purge_cache, inside `async with self._get_client()`
purge_cache(a, client) ==
    IF a.purge_everything
    THEN Request("sdk", SdkCall("purge_cache"), client,
                 [zone_id |-> a.zone_id, purge_everything |-> TRUE])
    ELSE IF a.files # << >>
    THEN Request("sdk", SdkCall("purge_cache"), client,
                 [zone_id |-> a.zone_id, files |-> file_list(a.files)])
    ELSE IF a.tags # << >>
    THEN Request("sdk", SdkCall("purge_cache"), client,
                 [zone_id |-> a.zone_id, tags |-> file_list(a.tags)])
    ELSE Raise("ValueError", PurgeValidationText)

\* the mutant update_dns_record edits without reading the record first
HandlerStartEditFirst(t, a) ==
    IF MethodError(t) # NoneValue THEN MethodError(t)
    ELSE IF Transport(t) = "sdk"
    THEN IF IsException(get_client) THEN get_client
         ELSE IF t = "purge_cache" THEN purge_cache(a, get_client)
         ELSE IF t = "update_dns_record"
         THEN Request("sdk", <<"dns.records.edit">>, get_client,
                      [zone_id |-> a.zone_id, record_id |-> a.record_id,
                       name |-> << >>, rtype |-> << >>, content |-> a.content,
                       ttl |-> a.ttl, proxied |-> a.proxied])
         ELSE Request("sdk", SdkCall(t), get_client, Target(a))
    ELSE IF IsException(get_auth_headers) THEN get_auth_headers
         ELSE Request("httpx", URL(t, a), get_auth_headers, HttpBody(t, a))

\* the mutant handler issues its httpx request without waiting for the
\* credential check
HandlerStartUnchecked(t, a) ==
    IF MethodError(t) # NoneValue THEN MethodError(t)
    ELSE IF Transport(t) = "sdk"
    THEN IF IsException(get_client) THEN get_client
         ELSE IF t = "purge_cache" THEN purge_cache(a, get_client)
         ELSE Request("sdk", SdkCall(t), get_client, Target(a))
    ELSE Request("httpx", URL(t, a),
                 IF IsException(get_auth_headers)
                 THEN [type |-> "headers", headers |-> << >>]
                 ELSE get_auth_headers,
                 HttpBody(t, a))

\* A handler method from its call to its first await: the exception it
\* raises, or the upstream request it issues.
HandlerStart(t, a) ==
    IF MethodError(t) # NoneValue THEN MethodError(t)
    ELSE IF Transport(t) = "sdk"
    THEN IF IsException(get_client) THEN get_client
         ELSE IF t = "purge_cache" THEN purge_cache(a, get_client)
         ELSE Request("sdk", SdkCall(t), get_client, Target(a))
    ELSE IF IsException(get_auth_headers) THEN get_auth_headers
         ELSE Request("httpx", URL(t, a), get_auth_headers, HttpBody(t, a))

-----------------------------------------------------------------------------
(* The upstream, as the handler sees it *)

\* how an upstream call can fail: a request the upstream refuses because the
\* feature it addresses is not provisioned, rejected credentials, missing
\* permission, unknown resource, no connection, no answer in time
Failures == {"400", "401", "403", "404", "connect", "timeout"}

\* The exception the awaited call raises on failure o.  The SDK raises its
\* typed errors; an httpx call raises httpx's transport errors, or
\* response.raise_for_status() raises HTTPStatusError naming the URL.
\* str() of an httpx timeout is empty.
TransportError(req, o) ==
    IF req.transport = "sdk"
    THEN CASE o = "400"     -> Raise("BadRequestError", <<"Error code: 400">>)
           [] o = "401"     -> Raise("AuthenticationError", <<"Error code: 401">>)
           [] o = "403"     -> Raise("PermissionDeniedError", <<"Error code: 403">>)
           [] o = "404"     -> Raise("NotFoundError", <<"Error code: 404">>)
           [] o = "connect" -> Raise("APIConnectionError", <<"Connection error.">>)
           [] OTHER         -> Raise("APITimeoutError", <<"Request timed out.">>)
    ELSE CASE o \in {"400", "401", "403", "404"} ->
                Raise("HTTPStatusError",
                      <<"Client error '", o, "' for url '">> \o req.op \o <<"'">>)
           [] o = "connect" -> Raise("ConnectError", <<"All connection attempts failed">>)
           [] OTHER         -> Raise("ReadTimeout", << >>)

\* a DNS record as the upstream holds it
UpstreamRecords ==
    {[name |-> <<"www.example.com">>, rtype |-> <<"A">>, content |-> <<"1.2.3.4">>,
      ttl |-> 300, proxied |-> x] : x \in {"True", "False"}}

\* the record object client.dns.records.get / .edit answers with
RecordPayload(rid, r) ==
    [type |-> "record", encodable |-> TRUE, id |-> rid, name |-> r.name,
     rtype |-> r.rtype, content |-> r.content, ttl |-> r.ttl,
     proxied |-> r.proxied]

\* the record the upstream holds once it has applied the edit request req
Edited(req) ==
    [name |-> req.body.name, rtype |-> req.body.rtype,
     content |-> req.body.content, ttl |-> req.body.ttl,
     proxied |-> req.body.proxied]

\* sequences over S of length at most n
SeqUpTo(S, n) == UNION {[1..k -> S] : k \in 0..n}

\* GET /zones/{zone_id}/settings: the entries of "result".  An entry is an
\* object with an id and a value (null or not), an object without id, or not
\* an object.
SettingIds == {"cache_level", "brotli", "waf", "ssl"}

SettingItems ==
    {[kind |-> "dict", id |-> i, value |-> v] :
        i \in SettingIds, v \in {"on", "null"}}
    \cup {[kind |-> "dict", id |-> "(absent)", value |-> "on"],
          [kind |-> "other", id |-> "(absent)", value |-> "null"]}

SettingsPayloads ==
    {[type |-> "json", encodable |-> TRUE, is_list |-> TRUE, result |-> r] :
        r \in SeqUpTo(SettingItems, MaxSettings)}
    \cup {[type |-> "json", encodable |-> TRUE, is_list |-> FALSE, result |-> << >>]}

\* POST /graphql: one hourly bucket of httpRequests1hGroups.  kind and sum
\* say whether the entry and its "sum" member are objects; absent and nulls
\* name the counters that are missing or null.
Counters ==
    {"requests", "cachedRequests", "bytes", "cachedBytes", "threats", "pageViews"}

Sum(r, c, b, cb, t, v) ==
    [requests |-> r, cachedRequests |-> c, bytes |-> b, cachedBytes |-> cb,
     threats |-> t, pageViews |-> v]

WellFormedBuckets ==
    {[kind |-> "dict", sum |-> "dict", c |-> x, absent |-> {}, nulls |-> {}] :
        x \in {Sum(600, 500, 6000, 5000, 3, 500), Sum(400, 300, 4000, 3000, 2, 400),
               Sum(0, 0, 0, 0, 0, 0)}}

MalformedBuckets ==
    {[kind |-> "other", sum |-> "missing", c |-> Sum(0, 0, 0, 0, 0, 0),
      absent |-> Counters, nulls |-> {}],
     [kind |-> "dict", sum |-> "other", c |-> Sum(0, 0, 0, 0, 0, 0),
      absent |-> Counters, nulls |-> {}],
     [kind |-> "dict", sum |-> "dict", c |-> Sum(7, 0, 70, 0, 0, 0),
      absent |-> {"cachedRequests", "cachedBytes", "threats", "pageViews"},
      nulls |-> {}],
     [kind |-> "dict", sum |-> "dict", c |-> Sum(0, 0, 0, 0, 0, 0),
      absent |-> {}, nulls |-> {"requests"}]}

Buckets == WellFormedBuckets \cup MalformedBuckets

\* The members of the GraphQL answer on the path data.viewer.zones[0]
\* .httpRequests1hGroups: each is missing, of the wrong type, empty, or as
\* expected ("dict" / "list"); the members below a degenerate one do not
\* matter and are left empty.
Shape(d, v, z, f, g, bs) ==
    [type |-> "json", encodable |-> TRUE, data |-> d, viewer |-> v, zones |-> z,
     first |-> f, groups |-> g, buckets |-> bs]

AnalyticsPayloads ==
    {Shape(d, "missing", "missing", "missing", "missing", << >>) :
        d \in {"missing", "other", "empty"}}
    \cup {Shape("dict", v, "missing", "missing", "missing", << >>) :
        v \in {"missing", "other", "empty"}}
    \cup {Shape("dict", "dict", z, "missing", "missing", << >>) :
        z \in {"missing", "other", "empty"}}
    \cup {Shape("dict", "dict", "list", f, "missing", << >>) :
        f \in {"other", "empty"}}
    \cup {Shape("dict", "dict", "list", "dict", g, << >>) :
        g \in {"missing", "other", "empty"}}
    \cup {Shape("dict", "dict", "list", "dict", "list", bs) :
        bs \in SeqUpTo(Buckets, MaxBuckets) \ {<< >>}}

\* the collections an upstream may hold: distinct items, in its order
Collections ==
    {c \in SeqUpTo(Ident("item-"), MaxItems) :
        \A i, j \in 1..Len(c) : i # j => c[i] # c[j]}

\* The page object an SDK list call answers with: the upstream collection
\* holds the items of collection, in order, and serves per_page of them per
\* page; the object's .result is the first page.
PagePayloads ==
    {[type |-> "page", encodable |-> b, collection |-> c, per_page |-> n] :
        b \in BOOLEAN, c \in Collections, n \in 1..MaxItems}

\* what a successful upstream call may answer to the last request of reqs,
\* issued by tool t called with a
Payloads(t, a, reqs) ==
    IF t = "update_dns_record"
    THEN IF Len(reqs) = 2
         THEN {RecordPayload(a.record_id, Edited(reqs[2]))}
         ELSE {RecordPayload(a.record_id, r) : r \in UpstreamRecords}
    ELSE IF t = "get_worker"
    THEN {[type |-> "json", encodable |-> TRUE, is_list |-> TRUE, ids |-> S] :
             S \in SUBSET ScriptNames}
         \cup {[type |-> "json", encodable |-> TRUE, is_list |-> FALSE, ids |-> {}]}
    ELSE IF t \in SettingsTools THEN SettingsPayloads
    ELSE IF t = "get_zone_analytics" THEN AnalyticsPayloads
    ELSE IF t \in ListTools THEN PagePayloads
    ELSE IF t \in HttpxTools \/ t \in {"delete_dns_record", "purge_cache"}
    THEN {[type |-> "json", encodable |-> TRUE]}
    ELSE {[type |-> "model", encodable |-> b] : b \in BOOLEAN}

-----------------------------------------------------------------------------
(* The handler methods after their upstream call *)

Return(v) == [type |-> "return", value |-> v]

CACHE_KEYS ==
    {"cache_level", "browser_cache_ttl", "always_online", "development_mode",
     "edge_cache_ttl"}

SPEED_KEYS ==
    {"brotli", "early_hints", "h2_prioritization", "minify", "mirage", "polish",
     "prefetch_preload", "rocket_loader", "http2", "http3"}

SECURITY_KEYS ==
    {"security_level", "browser_check", "challenge_ttl", "hotlink_protection",
     "privacy_pass", "waf"}

\* the allow-list a settings tool filters by; get_zone_settings keeps every
\* entry that has an id
KeysOf(t) ==
    CASE t = "get_cache_settings"    -> CACHE_KEYS
      [] t = "get_speed_settings"    -> SPEED_KEYS
      [] t = "get_security_settings" -> SECURITY_KEYS
      [] OTHER                       -> SettingIds

\* the mutant leaves out the allow-list test
SettingsUnfiltered(p, keys) ==
    IF ~p.is_list THEN [type |-> "dict", encodable |-> TRUE, items |-> {}]
    ELSE [type |-> "dict", encodable |-> TRUE,
          items |-> {<<p.result[i].id, p.result[i].value>> :
                        i \in {j \in 1..Len(p.result) :
                                 /\ p.result[j].kind = "dict"
                                 /\ p.result[j].id \in SettingIds
                                 /\ p.result[j].value # "null"}}]

\* the dict comprehension of get_zone_settings and
\* _get_zone_settings_filtered, as the set of its (key, value) pairs
get_zone_settings_filtered(p, keys) ==
    IF ~p.is_list THEN [type |-> "dict", encodable |-> TRUE, items |-> {}]
    ELSE [type |-> "dict", encodable |-> TRUE,
          items |-> {<<p.result[i].id, p.result[i].value>> :
                        i \in {j \in 1..Len(p.result) :
                                 /\ p.result[j].kind = "dict"
                                 /\ p.result[j].id \in keys
                                 /\ p.result[j].value # "null"}}]

\* int(s.get(k, 0)) of one bucket: nothing for an entry or a "sum" that is
\* not an object, the default 0 for a missing counter
Term(g, k) ==
    IF g.kind # "dict" \/ g.sum # "dict" THEN 0
    ELSE IF k \in g.absent THEN 0
    ELSE g.c[k]

RECURSIVE Total(_, _)
\* the running sum of counter k over the buckets
Total(groups, k) ==
    IF groups = << >> THEN 0
    ELSE Term(Head(groups), k) + Total(Tail(groups), k)

EmptyDict == [type |-> "dict", encodable |-> TRUE, keys |-> {}]

\* the dict _aggregate_analytics returns
Totals(groups) ==
    [type |-> "dict", encodable |-> TRUE,
     keys |-> {"requests", "bandwidth", "threats", "pageviews"},
     requests |-> [total |-> Total(groups, "requests"),
                   cached |-> Total(groups, "cachedRequests"),
                   uncached |-> Total(groups, "requests")
                                - Total(groups, "cachedRequests")],
     bandwidth |-> [total |-> Total(groups, "bytes"),
                    cached |-> Total(groups, "cachedBytes"),
                    uncached |-> Total(groups, "bytes")
                                 - Total(groups, "cachedBytes")],
     threats |-> [total |-> Total(groups, "threats")],
     pageviews |-> [total |-> Total(groups, "pageViews")]]

\* int(None), for a counter that is null
IntOfNone ==
    Raise("TypeError",
          <<"int() argument must be a string, a bytes-like object or a real number, not 'NoneType'">>)

HasNullCounter(groups) ==
    \E i \in 1..Len(groups) :
        /\ groups[i].kind = "dict"
        /\ groups[i].sum = "dict"
        /\ groups[i].nulls # {}

\* the mutant assigns where the code accumulates: the last bucket wins
AggregateLastOnly(groups) ==
    IF HasNullCounter(groups) THEN IntOfNone
    ELSE IF groups = << >> THEN Return(Totals(groups))
    ELSE Return(Totals(<<groups[Len(groups)]>>))

\* CloudflareHandler._aggregate_analytics
aggregate_analytics(groups) ==
    IF HasNullCounter(groups) THEN IntOfNone ELSE Return(Totals(groups))

\* the mutant calls .get on whatever it finds at each level
AnalyticsUnchecked(p) ==
    IF "other" \in {p.data, p.viewer, p.zones, p.first, p.groups}
    THEN Raise("AttributeError", <<"'NoneType' object has no attribute 'get'">>)
    ELSE IF p.zones # "list" THEN Return(EmptyDict)
    ELSE aggregate_analytics(p.buckets)

\* CloudflareHandler.get_zone_analytics after response.json(): a member that
\* is missing takes its default ({} or []), a member of the wrong type or an
\* empty zone list ends the method with {}
get_zone_analytics(p) ==
    IF p.data = "other" THEN Return(EmptyDict)
    ELSE IF p.viewer = "other" THEN Return(EmptyDict)
    ELSE IF p.zones # "list" THEN Return(EmptyDict)
    ELSE IF p.first = "other" THEN Return(EmptyDict)
    ELSE IF p.groups = "other" THEN Return(EmptyDict)
    ELSE aggregate_analytics(p.buckets)

\* CloudflareHandler.get_worker after response.json()
get_worker(a, p) ==
    IF ~p.is_list THEN Return(EmptyDict)
    ELSE IF a.script_name \in p.ids
    THEN Return([type |-> "dict", encodable |-> TRUE,
                 keys |-> {"id", "created_on", "modified_on", "etag"},
                 id |-> a.script_name])
    ELSE Raise("ValueError", WorkerNotFound(a))

\* page.result: the items of the first page
PageResult(page) ==
    SubSeq(page.collection, 1,
           IF page.per_page < Len(page.collection) THEN page.per_page
           ELSE Len(page.collection))

\* the mutant stamps the list with the time of the call
ListItemsStamped(page) ==
    Return([type |-> "list", encodable |-> page.encodable,
            entries |-> PageResult(page), fetched_at |-> clock])

\* the list methods after the SDK call: one entry per item of page.result
list_items(page) ==
    Return([type |-> "list", encodable |-> page.encodable,
            entries |-> PageResult(page)])

\* the mutant sends the caller's proxied as it is, None included
UpdateSendsCallerProxied(a, client, existing) ==
    Request("sdk", <<"dns.records.edit">>, client,
            [zone_id |-> a.zone_id, record_id |-> a.record_id,
             name |-> existing.name, rtype |-> existing.rtype,
             content |-> a.content, ttl |-> a.ttl, proxied |-> a.proxied])

\* CloudflareHandler.update_dns_record after the read: the edit it issues
update_dns_record(a, client, existing) ==
    Request("sdk", <<"dns.records.edit">>, client,
            [zone_id |-> a.zone_id, record_id |-> a.record_id,
             name |-> existing.name, rtype |-> existing.rtype,
             content |-> a.content, ttl |-> a.ttl,
             proxied |-> IF a.proxied # "None" THEN a.proxied
                         ELSE existing.proxied])

\* the mutant delete_dns_record issues its delete a second time
HandlerResumeRetries(t, a, n, client, p) ==
    IF t = "delete_dns_record" /\ n = 1
    THEN Request("sdk", SdkCall(t), client, Target(a))
    ELSE IF t = "update_dns_record"
    THEN IF n = 1 THEN update_dns_record(a, client, p)
         ELSE Return([type |-> "dict", encodable |-> TRUE,
                      keys |-> {"id", "type", "name", "content", "proxied"},
                      id |-> p.id, rtype |-> p.rtype, name |-> p.name,
                      content |-> p.content, proxied |-> p.proxied])
    ELSE IF t = "get_worker" THEN get_worker(a, p)
    ELSE IF t \in SettingsTools
    THEN Return(get_zone_settings_filtered(p, KeysOf(t)))
    ELSE IF t = "get_zone_analytics" THEN get_zone_analytics(p)
    ELSE IF t \in ListTools THEN list_items(p)
    ELSE IF t = "delete_dns_record"
    THEN Return([type |-> "bool", encodable |-> TRUE, value |-> TRUE])
    ELSE IF t = "purge_cache"
    THEN Return([type |-> "dict", encodable |-> TRUE, purged |-> TRUE,
                 zone_id |-> a.zone_id])
    ELSE Return([type |-> "reshaped", encodable |-> p.encodable, of |-> t])

\* A handler method from the answer p to its n-th call up to its next await
\* or its end: the next request, the value it returns, or the exception it
\* raises.
HandlerResume(t, a, n, client, p) ==
    IF t = "update_dns_record"
    THEN IF n = 1 THEN update_dns_record(a, client, p)
         ELSE Return([type |-> "dict", encodable |-> TRUE,
                      keys |-> {"id", "type", "name", "content", "proxied"},
                      id |-> p.id, rtype |-> p.rtype, name |-> p.name,
                      content |-> p.content, proxied |-> p.proxied])
    ELSE IF t = "get_worker" THEN get_worker(a, p)
    ELSE IF t \in SettingsTools
    THEN Return(get_zone_settings_filtered(p, KeysOf(t)))
    ELSE IF t = "get_zone_analytics" THEN get_zone_analytics(p)
    ELSE IF t \in ListTools THEN list_items(p)
    ELSE IF t = "delete_dns_record"
    THEN Return([type |-> "bool", encodable |-> TRUE, value |-> TRUE])
    ELSE IF t = "purge_cache"
    THEN Return([type |-> "dict", encodable |-> TRUE, purged |-> TRUE,
                 zone_id |-> a.zone_id])
    ELSE Return([type |-> "reshaped", encodable |-> p.encodable, of |-> t])

-----------------------------------------------------------------------------
(* The tool functions: try: data = await handler...; return _success(data)  *)
(*                     except ...: return _error(...)                       *)

\* the data a tool hands to _success
SuccessData(t, a, v) ==
    IF t = "delete_dns_record"
    THEN [type |-> "dict", encodable |-> TRUE, deleted |-> TRUE,
          record_id |-> a.record_id]
    ELSE IF t = "delete_custom_hostname"
    THEN [type |-> "dict", encodable |-> v.encodable, deleted |-> v,
          custom_hostname_id |-> a.custom_hostname_id]
    ELSE v

\* what the try block ends with, given how the handler call ended: the
\* success envelope, or the exception raised by the handler or by _success
TryBlock(t, a, h) ==
    IF IsException(h) THEN h ELSE success(SuccessData(t, a, h.value))

\* how the tool function ends: the exception seen by its except clauses, the
\* envelope returned, the exception that escapes
ToolResult(t, a, h) ==
    LET tried == TryBlock(t, a, h) IN
    IF ~IsException(tried)
    THEN [exc |-> NoneValue, envelope |-> tried, propagated |-> NoneValue]
    ELSE IF IsException(MapException(t, a, tried))
    THEN [exc |-> tried, envelope |-> NoneValue, propagated |-> tried]
    ELSE [exc |-> tried, envelope |-> MapException(t, a, tried),
          propagated |-> NoneValue]

-----------------------------------------------------------------------------
(* State machine *)

\* the callers that invoke update_dns_record concurrently
Callers == {"A", "B"}

\* a caller that has not invoked yet
NoCall ==
    [pc |-> "idle", args |-> NoArgs, sent |-> << >>, received |-> << >>,
     exc |-> NoneValue, envelope |-> NoneValue, propagated |-> NoneValue]

Init ==
    /\ CF_API_TOKEN \in CredValues("token-xxx")
    /\ CF_API_KEY \in CredValues("key-yyy")
    /\ CF_API_EMAIL \in CredValues("me@example.com")
    /\ pc = "idle"
    /\ tool = "none"
    /\ args = NoArgs
    /\ sent = << >>
    /\ received = << >>
    /\ outcome = "none"
    /\ exc = NoneValue
    /\ envelope = NoneValue
    /\ propagated = NoneValue
    /\ records = [r \in RecordIds |-> CHOOSE x \in UpstreamRecords : TRUE]
    /\ records0 = records
    /\ calls = [c \in Callers |-> NoCall]
    /\ version = 0
    /\ clock = 0
    /\ memo = NoneValue
    /\ previous = NoneValue

Finish(t, a, h) ==
    \E r \in {ToolResult(t, a, h)} :
        /\ pc' = "done"
        /\ exc' = r.exc
        /\ envelope' = r.envelope
        /\ propagated' = r.propagated

\* A caller invokes tool t with arguments a; the tool runs to its first
\* await or to its return.
Invoke(t, a) ==
    /\ pc = "idle"
    /\ tool' = t
    /\ args' = a
    /\ outcome' = "none"
    /\ received' = << >>
    /\ IF HandlerStart(t, a).type = "request"
       THEN /\ sent' = <<HandlerStart(t, a)>>
            /\ pc' = "awaiting"
            /\ exc' = NoneValue
            /\ envelope' = NoneValue
            /\ propagated' = NoneValue
       ELSE /\ sent' = << >>
            /\ Finish(t, a, HandlerStart(t, a))
    /\ UNCHANGED <<CF_API_TOKEN, CF_API_KEY, CF_API_EMAIL, dnsVars, upVars>>

\* The awaited upstream call answers with p; the tool runs to its next await
\* or to its return.
UpstreamResponds(p) ==
    /\ pc = "awaiting"
    /\ outcome' = "ok"
    /\ received' = Append(received, p)
    /\ \E h \in {HandlerResume(tool, args, Len(sent), sent[1].auth, p)} :
       IF h.type = "request"
       THEN /\ sent' = Append(sent, h)
            /\ UNCHANGED <<pc, exc, envelope, propagated>>
       ELSE /\ sent' = sent
            /\ Finish(tool, args, h)
    /\ UNCHANGED <<CF_API_TOKEN, CF_API_KEY, CF_API_EMAIL, tool, args, dnsVars, upVars>>

\* the mutant swallows the failure and waits for the call again
UpstreamFailsWaitsOn(o) ==
    /\ pc = "awaiting"
    /\ outcome' = o
    /\ UNCHANGED <<pc, sent, received, exc, envelope, propagated>>
    /\ UNCHANGED <<CF_API_TOKEN, CF_API_KEY, CF_API_EMAIL, tool, args, dnsVars, upVars>>

\* The awaited upstream call fails with o; the exception unwinds the handler
\* into the tool's except clauses.
UpstreamFails(o) ==
    /\ pc = "awaiting"
    /\ outcome' = o
    /\ sent' = sent
    /\ received' = received
    /\ \E e \in {TransportError(sent[Len(sent)], o)} : Finish(tool, args, e)
    /\ UNCHANGED <<CF_API_TOKEN, CF_API_KEY, CF_API_EMAIL, tool, args, dnsVars, upVars>>

\* The caller has the tool's result, and the server waits for the next
\* invocation; nothing of the invocation outlives it.
Reply ==
    /\ pc = "done"
    /\ pc' = "idle"
    /\ tool' = "none"
    /\ args' = NoArgs
    /\ sent' = << >>
    /\ received' = << >>
    /\ outcome' = "none"
    /\ exc' = NoneValue
    /\ envelope' = NoneValue
    /\ propagated' = NoneValue
    /\ UNCHANGED <<CF_API_TOKEN, CF_API_KEY, CF_API_EMAIL, dnsVars, upVars>>

Next ==
    \/ \E t \in Tools : \E a \in ArgsOf(t) : Invoke(t, a)
    \/ \E p \in Payloads(tool, args, sent) : UpstreamResponds(p)
    \/ \E o \in Failures : UpstreamFails(o)
    \/ Reply

Spec == Init /\ [][Next]_vars

\* the awaited upstream call ends: it returns a response or raises a failure
UpstreamEnds ==
    /\ pc = "awaiting"
    /\ \/ \E p \in Payloads(tool, args, sent) : UpstreamResponds(p)
       \/ \E o \in Failures : UpstreamFails(o)

\* Every issued upstream call eventually ends, and the event loop then
\* resumes the coroutine that awaits it.
SpecLive == Spec /\ WF_vars(UpstreamEnds)

-----------------------------------------------------------------------------
(* Concurrent invocations: each caller invokes update_dns_record once on a  *)
(* record of one zone; the event loop interleaves the invocations at their  *)
(* awaits, and the upstream serves one request at a time.                   *)

DnsZone == <<"zone-", "1">>

\* the content a caller writes, one per caller to tell their writes apart
ContentOf(c) == IF c = "A" THEN <<"9.9.9.9">> ELSE <<"8.8.8.8">>

CallArgs(c) ==
    {[a EXCEPT !.content = ContentOf(c)] :
        a \in {x \in ArgsOf("update_dns_record") : x.zone_id = DnsZone}}

InitDns ==
    /\ CF_API_TOKEN \in CredValues("token-xxx")
    /\ CF_API_KEY \in CredValues("key-yyy")
    /\ CF_API_EMAIL \in CredValues("me@example.com")
    /\ pc = "idle"
    /\ tool = "none"
    /\ args = NoArgs
    /\ sent = << >>
    /\ received = << >>
    /\ outcome = "none"
    /\ exc = NoneValue
    /\ envelope = NoneValue
    /\ propagated = NoneValue
    /\ records \in [RecordIds -> UpstreamRecords]
    /\ records0 = records
    /\ calls = [c \in Callers |-> NoCall]
    /\ version = 0
    /\ clock = 0
    /\ memo = NoneValue
    /\ previous = NoneValue

\* caller c's tool function goes on from h, what its handler reached
CallStep(a, reqs, answers, h) ==
    IF h.type = "request"
    THEN [pc |-> "awaiting", args |-> a, sent |-> Append(reqs, h),
          received |-> answers, exc |-> NoneValue, envelope |-> NoneValue,
          propagated |-> NoneValue]
    ELSE LET r == ToolResult("update_dns_record", a, h) IN
         [pc |-> "done", args |-> a, sent |-> reqs, received |-> answers,
          exc |-> r.exc, envelope |-> r.envelope, propagated |-> r.propagated]

\* Caller c invokes update_dns_record with a.
Call(c, a) ==
    /\ calls[c].pc = "idle"
    /\ calls' = [calls EXCEPT ![c] =
                    CallStep(a, << >>, << >>,
                             HandlerStart("update_dns_record", a))]
    /\ UNCHANGED <<CF_API_TOKEN, CF_API_KEY, CF_API_EMAIL, toolVars, upVars, records,
                   records0>>

\* The upstream serves the request caller c awaits: a read answers with the
\* record as it is now, an edit replaces the record and answers with it.
Serve(c) ==
    /\ calls[c].pc = "awaiting"
    /\ LET me  == calls[c]
           req == me.sent[Len(me.sent)]
           rid == me.args.record_id
           now == IF req.op = <<"dns.records.edit">>
                  THEN Edited(req) ELSE records[rid]
           p   == RecordPayload(rid, now) IN
       /\ records' = [records EXCEPT ![rid] = now]
       /\ calls' = [calls EXCEPT ![c] =
                       CallStep(me.args, me.sent, Append(me.received, p),
                                HandlerResume("update_dns_record", me.args,
                                              Len(me.sent), me.sent[1].auth, p))]
    /\ UNCHANGED <<CF_API_TOKEN, CF_API_KEY, CF_API_EMAIL, toolVars, upVars, records0>>

\* The request caller c awaits fails with o, the upstream left as it is.
Reject(c, o) ==
    /\ calls[c].pc = "awaiting"
    /\ LET me == calls[c] IN
       calls' = [calls EXCEPT ![c] =
                    CallStep(me.args, me.sent, me.received,
                             TransportError(me.sent[Len(me.sent)], o))]
    /\ UNCHANGED <<CF_API_TOKEN, CF_API_KEY, CF_API_EMAIL, toolVars, upVars, records,
                   records0>>

NextDns ==
    \/ \E c \in Callers : \E a \in CallArgs(c) : Call(c, a)
    \/ \E c \in Callers : Serve(c)
    \/ \E c \in Callers : \E o \in Failures : Reject(c, o)

SpecDns == InitDns /\ [][NextDns]_vars

-----------------------------------------------------------------------------
(* Repeated reads: a caller invokes a tool and, when it is a read, invokes   *)
(* it again with the same arguments, against an upstream whose state lasts   *)
(* from one invocation to the next.  The upstream state is followed by its   *)
(* generation: within one generation the same request gets the same answer.  *)

\* the list_* and get_* tools
ReadOnlyTools ==
    Tools \ {"create_dns_record", "update_dns_record", "delete_dns_record",
             "purge_cache", "create_custom_hostname", "update_custom_hostname",
             "delete_custom_hostname", "run_ai"}

\* the upstream calls that change the zone: create, edit and delete of DNS
\* records and custom hostnames, and the cache purge
MutatingOps ==
    {<<"dns.records.create">>, <<"dns.records.edit">>, <<"dns.records.delete">>,
     <<"cache.purge">>, <<"custom_hostnames.create">>}

Mutating(req) == req.op \in MutatingOps

\* the arguments of the repeated invocations: purge lists of one token
UpArgs(t) == {a \in ArgsOf(t) : Len(a.files) <= 1 /\ Len(a.tags) <= 1}

\* the answers to the repeated invocations: at most one setting, bucket,
\* item or script each
UpPayloads(t, a, reqs) ==
    {p \in Payloads(t, a, reqs) :
        /\ "result" \in DOMAIN p => Len(p.result) <= 1
        /\ "buckets" \in DOMAIN p => Len(p.buckets) <= 1
        /\ "collection" \in DOMAIN p => Len(p.collection) <= 1
        /\ "ids" \in DOMAIN p => Cardinality(p.ids) <= 1}

\* outcome o with answer p to request req agrees with what the upstream has
\* served in this generation
Consistent(req, o, p) ==
    IF memo = NoneValue THEN TRUE
    ELSE IF memo.req # req THEN TRUE
    ELSE memo.out = o /\ memo.answer = p

\* the tool function t runs from its call to its first await or its return
Start(t, a) ==
    /\ tool' = t
    /\ args' = a
    /\ outcome' = "none"
    /\ received' = << >>
    /\ \E h \in {HandlerStart(t, a)} :
          IF h.type = "request"
          THEN /\ sent' = <<h>>
               /\ pc' = "awaiting"
               /\ exc' = NoneValue
               /\ envelope' = NoneValue
               /\ propagated' = NoneValue
          ELSE /\ sent' = << >>
               /\ Finish(t, a, h)

\* A caller invokes tool t with a.
FirstCall(t, a) ==
    /\ pc = "idle"
    /\ Start(t, a)
    /\ previous' = [envelope |-> NoneValue, sent |-> << >>, version |-> version]
    /\ UNCHANGED <<CF_API_TOKEN, CF_API_KEY, CF_API_EMAIL, dnsVars, version,
                   clock, memo>>

\* The caller has the result of a read and invokes the same tool again with
\* the same arguments.
RepeatCall ==
    /\ pc = "done"
    /\ tool \in ReadOnlyTools
    /\ previous.envelope = NoneValue
    /\ previous' = [envelope |-> envelope, sent |-> sent,
                    version |-> previous.version]
    /\ Start(tool, args)
    /\ UNCHANGED <<CF_API_TOKEN, CF_API_KEY, CF_API_EMAIL, dnsVars, version,
                   clock, memo>>

\* The upstream answers the awaited call with p; a call that changes the zone
\* starts a new generation.
Answer(p) ==
    /\ pc = "awaiting"
    /\ Consistent(sent[Len(sent)], "ok", p)
    /\ Mutating(sent[Len(sent)]) => version < MaxVersion
    /\ version' = IF Mutating(sent[Len(sent)]) THEN version + 1 ELSE version
    /\ memo' = IF Mutating(sent[Len(sent)]) THEN NoneValue
               ELSE [req |-> sent[Len(sent)], out |-> "ok", answer |-> p]
    /\ outcome' = "ok"
    /\ received' = Append(received, p)
    /\ \E h \in {HandlerResume(tool, args, Len(sent), sent[1].auth, p)} :
          IF h.type = "request"
          THEN /\ sent' = Append(sent, h)
               /\ UNCHANGED <<pc, exc, envelope, propagated>>
          ELSE /\ sent' = sent
               /\ Finish(tool, args, h)
    /\ UNCHANGED <<CF_API_TOKEN, CF_API_KEY, CF_API_EMAIL, tool, args, dnsVars,
                   clock, previous>>

\* The awaited call fails with o.  A call that changes the zone and gets no
\* answer in time may have been carried out all the same.
Refuse(o) ==
    /\ pc = "awaiting"
    /\ Consistent(sent[Len(sent)], o, NoneValue)
    /\ \E applied \in IF Mutating(sent[Len(sent)]) /\ o = "timeout"
                           /\ version < MaxVersion
                        THEN BOOLEAN ELSE {FALSE} :
          /\ version' = IF applied THEN version + 1 ELSE version
          /\ memo' = IF applied THEN NoneValue
                     ELSE IF Mutating(sent[Len(sent)]) THEN memo
                     ELSE [req |-> sent[Len(sent)], out |-> o, answer |-> NoneValue]
    /\ outcome' = o
    /\ sent' = sent
    /\ received' = received
    /\ \E e \in {TransportError(sent[Len(sent)], o)} : Finish(tool, args, e)
    /\ UNCHANGED <<CF_API_TOKEN, CF_API_KEY, CF_API_EMAIL, tool, args, dnsVars,
                   clock, previous>>

\* the caller has the result of its first invocation and has not repeated it
Between == pc = "done" /\ previous # NoneValue /\ previous.envelope = NoneValue

\* Someone else changes the zone, or the upstream's availability changes.  An
\* invocation meets the upstream state when its call is served, so the
\* changes between the first invocation's end and its repetition stand for
\* all that happen from the one's answer to the other's.
UpstreamChanges ==
    /\ Between
    /\ version < MaxVersion
    /\ version' = version + 1
    /\ memo' = NoneValue
    /\ UNCHANGED <<CF_API_TOKEN, CF_API_KEY, CF_API_EMAIL, toolVars, dnsVars,
                   clock, previous>>

\* A second passes.  An invocation reads the clock when it starts.
Tick ==
    /\ Between
    /\ clock < MaxTicks
    /\ clock' = clock + 1
    /\ UNCHANGED <<CF_API_TOKEN, CF_API_KEY, CF_API_EMAIL, toolVars, dnsVars,
                   version, memo, previous>>

\* The caller has the result and does not repeat the invocation; time and
\* upstream generations are counted anew from its next first invocation.
ReplyUp ==
    /\ pc = "done"
    /\ pc' = "idle"
    /\ tool' = "none"
    /\ args' = NoArgs
    /\ sent' = << >>
    /\ received' = << >>
    /\ outcome' = "none"
    /\ exc' = NoneValue
    /\ envelope' = NoneValue
    /\ propagated' = NoneValue
    /\ previous' = NoneValue
    /\ memo' = NoneValue
    /\ version' = 0
    /\ clock' = 0
    /\ UNCHANGED <<CF_API_TOKEN, CF_API_KEY, CF_API_EMAIL, dnsVars>>

NextUp ==
    \/ \E t \in Tools : \E a \in UpArgs(t) : FirstCall(t, a)
    \/ RepeatCall
    \/ \E p \in UpPayloads(tool, args, sent) : Answer(p)
    \/ \E o \in Failures : Refuse(o)
    \/ UpstreamChanges
    \/ Tick
    \/ ReplyUp

SpecUp == Init /\ [][NextUp]_vars

-----------------------------------------------------------------------------
(* Properties *)

Returned == pc = "done" /\ envelope # NoneValue
Failed   == pc = "done" /\ exc # NoneValue

\* C1: every value a tool returns is an object with exactly the keys status,
\* data, message, and is either {success, <data>, ""} - returned only when
\* nothing was raised - or {error, null, <message>}; no other status occurs.
C1_EnvelopeShape ==
    envelope # NoneValue =>
        /\ DOMAIN envelope = {"status", "data", "message"}
        /\ \/ /\ envelope.status = "success"
              /\ envelope.message = << >>
              /\ envelope.data # NoneValue
              /\ exc = NoneValue
           \/ /\ envelope.status = "error"
              /\ envelope.data = NoneValue
              /\ exc # NoneValue

C1_Witness ==
    /\ Returned
    /\ envelope.status = "error"
    /\ exc.kind = "NotFoundError"

\* C2: whatever is raised while a tool runs - by credential resolution, by
\* the handler method call, by an upstream call, or by building the success
\* envelope - the tool returns an error envelope; nothing propagates.
C2_NoRawException ==
    /\ propagated = NoneValue
    /\ pc = "done" => envelope # NoneValue
    /\ Failed => envelope.status = "error" /\ envelope.data = NoneValue

\* the upstream call succeeded and json.dumps failed on the handler's result
C2_Witness ==
    /\ Failed
    /\ outcome = "ok"
    /\ exc.kind = "TypeError"
    /\ envelope.status = "error"

\* C3: every failed invocation returns status "error", data null and a
\* non-empty message.
C3_NonEmptyMessage ==
    Failed =>
        /\ envelope # NoneValue
        /\ envelope.status = "error"
        /\ envelope.data = NoneValue
        /\ envelope.message # << >>

\* C4: in every tool, an AuthenticationError from the handler gives the
\* localized invalid-credential message, not the exception's own text.
C4_AuthMessageEverywhere ==
    (Failed /\ exc.kind = "AuthenticationError") =>
        /\ envelope # NoneValue
        /\ Contains(envelope.message, <<"CF_API_TOKEN wuxiao">>)
        /\ envelope.message # StrOf(exc)

\* the identifier the NotFound message of a tool is to name
NotFoundIdentifier ==
    IF tool \in {"update_dns_record", "delete_dns_record"} THEN args.record_id
    ELSE IF tool \in {"update_custom_hostname", "delete_custom_hostname"}
    THEN args.custom_hostname_id
    ELSE IF tool = "get_worker" THEN args.script_name
    ELSE args.zone_id

\* C5: in every tool that takes a zone, record, custom-hostname or script
\* identifier, a NotFoundError from the handler gives an error envelope whose
\* message contains that identifier as the caller supplied it.
C5_NotFoundNamesIdentifier ==
    (Failed /\ exc.kind = "NotFoundError"
            /\ tool \in ZoneTools \cup RecordTools \cup HostnameTools \cup {"get_worker"}) =>
        /\ envelope # NoneValue
        /\ envelope.status = "error"
        /\ NotFoundIdentifier # << >>
        /\ Contains(envelope.message, NotFoundIdentifier)

C5_Witness ==
    /\ Failed
    /\ tool = "update_dns_record"
    /\ exc.kind = "NotFoundError"
    /\ outcome = "404"
    /\ Contains(envelope.message, args.record_id)
    /\ ~Contains(envelope.message, args.zone_id)

\* C6: in every tool, a connection failure reaching the upstream gives the
\* localized connection-failure message with the failure detail.
C6_ConnectionMessageEverywhere ==
    (pc = "done" /\ outcome = "connect") =>
        /\ envelope # NoneValue
        /\ envelope.message = <<"lianjie Cloudflare API shibai: ">> \o StrOf(exc)

\* C7: a PermissionDeniedError gives the localized insufficient-permission
\* message in purge_cache, and the exception's own string in every other tool.
C7_PermissionDeniedPurgeOnly ==
    (Failed /\ exc.kind = "PermissionDeniedError") =>
        /\ envelope # NoneValue
        /\ envelope.status = "error"
        /\ IF tool = "purge_cache"
           THEN envelope.message =
                   <<"wu quanxian qingchu huancun, qing jiancha API Token de Cache Purge quanxian">>
           ELSE envelope.message = StrOf(exc)

C7_Witness ==
    /\ Failed
    /\ tool = "purge_cache"
    /\ outcome = "403"
    /\ exc.kind = "PermissionDeniedError"
    /\ envelope.message # StrOf(exc)

\* the dedicated (non-generic) clauses of the running tool that match exc
Dedicated ==
    {i \in DOMAIN ExceptClauses(tool) :
        /\ ExceptClauses(tool)[i] # "Exception"
        /\ IsInstance(exc.kind, ExceptClauses(tool)[i])}

\* C8: a failure of a kind the tool has no dedicated clause for gives the
\* exception's own string, verbatim; a failure with dedicated clauses gets
\* the message of the first that matches, and only that one.
C8_UnmappedVerbatim ==
    Failed =>
        /\ envelope # NoneValue
        /\ Dedicated = {} => envelope.message = StrOf(exc)
        /\ Dedicated # {} =>
              envelope.message =
                  ClauseMessage(tool, ExceptClauses(tool)[Min(Dedicated)], args, exc)

C8_Witness ==
    /\ Failed
    /\ tool = "get_zone_settings"
    /\ exc.kind = "HTTPStatusError"
    /\ outcome = "404"
    /\ envelope.message = StrOf(exc)

BearerMode == CF_API_TOKEN # << >>
KeyMode    == CF_API_TOKEN = << >> /\ CF_API_KEY # << >> /\ CF_API_EMAIL # << >>

\* the one capability the configuration selects, per transport
SelectedAuth(transport) ==
    IF transport = "sdk"
    THEN IF BearerMode
         THEN [type |-> "client", api_token |-> CF_API_TOKEN]
         ELSE [type |-> "client", api_email |-> CF_API_EMAIL, api_key |-> CF_API_KEY]
    ELSE IF BearerMode
         THEN [type |-> "headers",
               headers |-> ("Authorization" :> (<<"Bearer ">> \o CF_API_TOKEN))]
         ELSE [type |-> "headers",
               headers |-> ("X-Auth-Email" :> CF_API_EMAIL) @@ ("X-Auth-Key" :> CF_API_KEY)]

\* C9: a non-empty token selects bearer mode even when key and email are set;
\* otherwise key and email both non-empty select key mode; otherwise
\* resolution fails with the configuration error.  Every request of an
\* invocation carries that one capability and nothing of the other mode, and
\* a rejected request is followed by no further request.
C9_AuthResolver ==
    /\ \A i \in DOMAIN sent :
          /\ BearerMode \/ KeyMode
          /\ sent[i].auth = SelectedAuth(sent[i].transport)
    /\ (pc = "done" /\ ~BearerMode /\ ~KeyMode /\ MethodError(tool) = NoneValue) =>
          exc = Raise("ValueError", ConfigErrorText)
    /\ outcome \in Failures => pc = "done"

\* token, key and email all set: the token was used, was rejected, and the
\* key pair was not tried
C9_Witness ==
    /\ CF_API_TOKEN # << >> /\ CF_API_KEY # << >> /\ CF_API_EMAIL # << >>
    /\ pc = "done"
    /\ outcome = "401"
    /\ Len(sent) = 1
    /\ sent[1].auth = [type |-> "client", api_token |-> CF_API_TOKEN]

NoCredentials == CF_API_TOKEN = << >> /\ (CF_API_KEY = << >> \/ CF_API_EMAIL = << >>)

-----------------------------------------------------------------------------
(* DNS update: read, then write *)

\* the step in which the read of caller c fails
GetFails(c) ==
    /\ calls[c].pc = "awaiting"
    /\ Len(calls[c].sent) = 1
    /\ calls'[c].pc = "done"

\* C11: update_dns_record issues its two upstream calls in order: the first
\* is the read, the edit is issued only once the read has answered; when the
\* read fails no edit is issued, the failing step leaves the upstream records
\* as they are, and the tool returns an error envelope.
C11_ReadBeforeWrite ==
    /\ [](\A c \in Callers :
            LET me == calls[c] IN
            /\ Len(me.sent) <= 2
            /\ Len(me.sent) >= 1 => me.sent[1].op = <<"dns.records.get">>
            /\ Len(me.sent) = 2 =>
                  /\ me.sent[2].op = <<"dns.records.edit">>
                  /\ Len(me.received) >= 1
                  /\ me.received[1].id = me.args.record_id
            /\ (me.pc = "done" /\ Len(me.sent) >= 1 /\ me.received = << >>) =>
                  /\ Len(me.sent) = 1
                  /\ me.envelope # NoneValue
                  /\ me.envelope.status = "error"
                  /\ me.envelope.data = NoneValue)
    /\ [][\A c \in Callers :
            GetFails(c) => records' = records /\ calls'[c].sent = calls[c].sent]_vars

\* caller A's read has failed after caller B's edit went through
C11_Witness ==
    /\ calls["A"].pc = "done"
    /\ Len(calls["A"].sent) = 1
    /\ calls["A"].received = << >>
    /\ calls["A"].envelope # NoneValue
    /\ calls["A"].envelope.status = "error"
    /\ calls["B"].pc = "done"
    /\ Len(calls["B"].received) = 2
    /\ calls["B"].args.record_id = calls["A"].args.record_id

\* C12: the edit carries the name and type of the record read, the content
\* and ttl of the caller, and as proxied the caller's value when it is true
\* or false, the read record's when the caller passed None.
C12_WriteFields ==
    (tool = "update_dns_record" /\ Len(sent) = 2) =>
        LET existing == received[1]
            edit     == sent[2].body IN
        /\ edit.name = existing.name
        /\ edit.rtype = existing.rtype
        /\ edit.content = args.content
        /\ edit.ttl = args.ttl
        /\ args.proxied \in {"True", "False"} => edit.proxied = args.proxied
        /\ args.proxied = "None" => edit.proxied = existing.proxied

\* the caller passed no proxied and the record read is proxied
C12_Witness ==
    /\ tool = "update_dns_record"
    /\ Len(sent) = 2
    /\ args.proxied = "None"
    /\ received[1].proxied = "True"
    /\ sent[2].body.proxied = "True"

-----------------------------------------------------------------------------
(* Concurrent invocations *)

AllDone == \A c \in Callers : calls[c].pc = "done"

Succeeded(c) ==
    /\ calls[c].pc = "done"
    /\ calls[c].envelope # NoneValue
    /\ calls[c].envelope.status = "success"

\* update_dns_record(a) run alone, from its call to its return, on the
\* upstream records store with both upstream calls answered: the records
\* and the envelope it ends with
Alone(store, a) ==
    LET rid  == a.record_id
        edit == update_dns_record(a, get_client, RecordPayload(rid, store[rid]))
        now  == Edited(edit)
        h    == HandlerResume("update_dns_record", a, 2, get_client,
                              RecordPayload(rid, now)) IN
    [store |-> [store EXCEPT ![rid] = now],
     envelope |-> ToolResult("update_dns_record", a, h).envelope]

\* caller c's invocation run alone on store; an invocation that failed
\* (and so wrote nothing) fails the same way when run alone
InTurn(store, c) ==
    IF Succeeded(c) THEN Alone(store, calls[c].args)
    ELSE [store |-> store, envelope |-> calls[c].envelope]

\* the callers' invocations run one after the other in this order
Serial(order) ==
    LET one == InTurn(records0, order[1])
        two == InTurn(one.store, order[2]) IN
    [store |-> two.store,
     envelopes |-> (order[1] :> one.envelope) @@ (order[2] :> two.envelope)]

\* C13: whatever the interleaving of the upstream calls of two concurrent
\* invocations, the upstream records and both envelopes they end with are
\* those of the two invocations run one after the other in some order.
C13_Serializable ==
    AllDone =>
        \E order \in {<<"A", "B">>, <<"B", "A">>} :
            /\ records = Serial(order).store
            /\ \A c \in Callers : calls[c].envelope = Serial(order).envelopes[c]

-----------------------------------------------------------------------------
(* Cache purge *)

NoTarget ==
    tool = "purge_cache" /\ ~args.purge_everything /\ args.files = << >>
    /\ args.tags = << >>

\* C14: purge_cache issues at most one upstream call, and that call names
\* one target only: everything when purge_everything is set, else the files
\* when files is non-empty, else the tags when tags is non-empty.
C14_PurgePrecedence ==
    tool = "purge_cache" =>
        /\ Len(sent) <= 1
        /\ Len(sent) = 1 =>
              LET body == sent[1].body IN
              /\ sent[1].op = <<"cache.purge">>
              /\ IF args.purge_everything
                 THEN DOMAIN body = {"zone_id", "purge_everything"}
                      /\ body.purge_everything
                 ELSE IF args.files # << >>
                 THEN DOMAIN body = {"zone_id", "files"}
                 ELSE /\ args.tags # << >>
                      /\ DOMAIN body = {"zone_id", "tags"}

\* everything, files and tags were all given, and the purge succeeded
C14_Witness ==
    /\ tool = "purge_cache"
    /\ pc = "done"
    /\ args.purge_everything /\ args.files # << >> /\ args.tags # << >>
    /\ Len(sent) = 1
    /\ envelope # NoneValue
    /\ envelope.status = "success"

\* C15 as stated: purge_cache with no target fails with the validation
\* error, raised before any upstream call, and the tool returns the error
\* envelope carrying its message.
C15_ValidationAlways ==
    (NoTarget /\ pc = "done") =>
        /\ sent = << >>
        /\ exc = Raise("ValueError", PurgeValidationText)
        /\ envelope = [status |-> "error", data |-> NoneValue,
                       message |-> PurgeValidationText]

\* C15 amended: with a credential mode configured, purge_cache with no
\* target fails with the validation error, raised before any upstream call,
\* and the tool returns the error envelope carrying its message; with none
\* configured it fails with the configuration error, also before any call.
C15_ValidationWhenConfigured ==
    NoTarget =>
        /\ sent = << >>
        /\ pc # "awaiting"
        /\ (pc = "done" /\ ~NoCredentials) =>
              /\ exc = Raise("ValueError", PurgeValidationText)
              /\ envelope = [status |-> "error", data |-> NoneValue,
                             message |-> PurgeValidationText]
        /\ (pc = "done" /\ NoCredentials) =>
              envelope = [status |-> "error", data |-> NoneValue,
                          message |-> ConfigErrorText]

\* a token is set and purge_cache was called with no target
C15_Witness ==
    /\ NoTarget
    /\ pc = "done"
    /\ CF_API_TOKEN # << >>
    /\ envelope # NoneValue
    /\ envelope.message = PurgeValidationText

-----------------------------------------------------------------------------
(* Settings projections *)

Answered(t) == tool = t /\ pc = "done" /\ outcome = "ok"

Range(q) == {q[i] : i \in 1..Len(q)}

\* the (id, value) pairs of the settings in answer p whose id is in keys and
\* whose value is not null
Projection(p, keys) ==
    {<<x.id, x.value>> :
        x \in {y \in Range(p.result) :
                 y.kind = "dict" /\ y.id \in keys /\ y.value # "null"}}

\* C16: get_cache_settings, get_speed_settings and get_security_settings
\* return exactly the mapping id -> value of the upstream settings whose id
\* is in the projection's allow-list and whose value is not null.
C16_SettingsProjection ==
    /\ Answered("get_cache_settings") =>
          /\ envelope.status = "success"
          /\ envelope.data.items = Projection(received[1], CACHE_KEYS)
    /\ Answered("get_speed_settings") =>
          /\ envelope.status = "success"
          /\ envelope.data.items = Projection(received[1], SPEED_KEYS)
    /\ Answered("get_security_settings") =>
          /\ envelope.status = "success"
          /\ envelope.data.items = Projection(received[1], SECURITY_KEYS)

\* the upstream listed brotli and ssl, and get_speed_settings kept brotli
C16_Witness ==
    /\ Answered("get_speed_settings")
    /\ {x.id : x \in Range(received[1].result)} = {"brotli", "ssl"}
    /\ envelope.data.items = {<<"brotli", "on">>}

-----------------------------------------------------------------------------
(* Analytics *)

Four == {"requests", "bandwidth", "threats", "pageviews"}

\* the members of the answer on the path to the bucket list
Path(p) == {p.data, p.viewer, p.zones, p.groups}

RECURSIVE SumTo(_, _, _)
\* counter k summed over the first n buckets of bs
SumTo(bs, k, n) == IF n = 0 THEN 0 ELSE bs[n].c[k] + SumTo(bs, k, n - 1)

SumOf(bs, k) == SumTo(bs, k, Len(bs))

\* C17: for a list of well-formed buckets every total is the sum of its
\* counter over the buckets and uncached is total minus cached, for requests
\* and for bandwidth; an empty list gives zero totals in a success envelope.
C17_AggregationSums ==
    (/\ Answered("get_zone_analytics")
     /\ Path(received[1]) \subseteq {"dict", "list", "empty"}
     /\ received[1].groups \in {"list", "empty"}
     /\ Range(received[1].buckets) \subseteq WellFormedBuckets) =>
        LET bs == received[1].buckets
            d  == envelope.data IN
        /\ envelope.status = "success"
        /\ d.requests.total = SumOf(bs, "requests")
        /\ d.requests.cached = SumOf(bs, "cachedRequests")
        /\ d.requests.uncached = d.requests.total - d.requests.cached
        /\ d.bandwidth.total = SumOf(bs, "bytes")
        /\ d.bandwidth.cached = SumOf(bs, "cachedBytes")
        /\ d.bandwidth.uncached = d.bandwidth.total - d.bandwidth.cached
        /\ d.threats.total = SumOf(bs, "threats")
        /\ d.pageviews.total = SumOf(bs, "pageViews")

\* the buckets 600/500 and 400/300 gave 1000 requests, 800 cached, 200 not
C17_Witness ==
    /\ Answered("get_zone_analytics")
    /\ Len(received[1].buckets) = 2
    /\ received[1].buckets[1].c.requests = 600
    /\ received[1].buckets[2].c.requests = 400
    /\ envelope.status = "success"
    /\ envelope.data.requests = [total |-> 1000, cached |-> 800, uncached |-> 200]

ZeroTotals == Totals(<< >>)

\* C18: every successful get_zone_analytics result has exactly the groups
\* requests{total,cached,uncached}, bandwidth{total,cached,uncached},
\* threats{total} and pageviews{total}; with no zone entry or no bucket list
\* upstream it is that structure with every total zero.
C18_FourGroups ==
    (tool = "get_zone_analytics" /\ pc = "done" /\ envelope # NoneValue
     /\ envelope.status = "success") =>
        /\ envelope.data.keys = Four
        /\ DOMAIN envelope.data.requests = {"total", "cached", "uncached"}
        /\ DOMAIN envelope.data.bandwidth = {"total", "cached", "uncached"}
        /\ DOMAIN envelope.data.threats = {"total"}
        /\ DOMAIN envelope.data.pageviews = {"total"}
        /\ (received[1].zones \in {"missing", "empty"}
            \/ received[1].groups = "missing") => envelope.data = ZeroTotals

\* C19: when the answer lacks data, viewer, zones or httpRequests1hGroups,
\* or has one of them of the wrong type or empty, get_zone_analytics ends
\* with an empty aggregate and the tool returns a success envelope.
C19_DegradesToEmpty ==
    (/\ Answered("get_zone_analytics")
     /\ Path(received[1]) \cap {"missing", "other", "empty"} # {}) =>
        /\ envelope = [status |-> "success", data |-> envelope.data,
                       message |-> << >>]
        /\ envelope.data \in {EmptyDict, ZeroTotals}

\* the answer's viewer is of the wrong type
C19_Witness ==
    /\ Answered("get_zone_analytics")
    /\ received[1].viewer = "other"
    /\ envelope.status = "success"
    /\ envelope.data = EmptyDict

-----------------------------------------------------------------------------
(* Worker lookup *)

\* C20: get_worker returns the metadata with exactly the fields id,
\* created_on, modified_on, etag and id = script_name when the listing has an
\* entry with that id; in every other case (no such entry, a listing that is
\* not a list) it fails with the not-found error naming script_name, and it
\* never returns an empty or partly filled result.
C20_WorkerFoundOrNotFound ==
    Answered("get_worker") =>
        IF received[1].is_list /\ args.script_name \in received[1].ids
        THEN /\ envelope.status = "success"
             /\ envelope.data.keys = {"id", "created_on", "modified_on", "etag"}
             /\ envelope.data.id = args.script_name
        ELSE /\ envelope.status = "error"
             /\ envelope.message = WorkerNotFound(args)
             /\ Contains(envelope.message, args.script_name)

-----------------------------------------------------------------------------
(* Soft failures *)

\* C21: when the upstream refuses get_email_routing or list_custom_hostnames
\* because the feature is not provisioned for the zone, the tool returns a
\* success envelope with an empty or absent result; any other upstream
\* failure of these tools gives an error envelope.
C21_SoftFailure ==
    (tool \in {"get_email_routing", "list_custom_hostnames"} /\ pc = "done"
     /\ outcome \in Failures) =>
        /\ envelope # NoneValue
        /\ envelope.status = (IF outcome = "400" THEN "success" ELSE "error")

-----------------------------------------------------------------------------
(* Custom hostname mutations *)

HostnameMutations ==
    {"create_custom_hostname", "update_custom_hostname", "delete_custom_hostname"}

\* the upstream call a custom hostname mutation is to issue
MutationCall(t) ==
    CASE t = "create_custom_hostname" -> <<"custom_hostnames.create">>
      [] t = "update_custom_hostname" -> <<"custom_hostnames.edit">>
      [] OTHER                        -> <<"custom_hostnames.delete">>

\* C22: with credentials configured and the upstream succeeding,
\* create_custom_hostname, update_custom_hostname and delete_custom_hostname
\* each issue one upstream call (create, edit, delete) and return a success
\* envelope: {id, hostname, status} for create and update, {deleted: true,
\* custom_hostname_id} for delete.
C22_HostnameMutations ==
    (tool \in HostnameMutations /\ pc = "done" /\ ~NoCredentials
     /\ outcome \notin Failures) =>
        /\ Len(sent) = 1
        /\ sent[1].op = MutationCall(tool)
        /\ envelope # NoneValue
        /\ envelope.status = "success"
        /\ tool = "delete_custom_hostname" =>
              /\ envelope.data.deleted = TRUE
              /\ envelope.data.custom_hostname_id = args.custom_hostname_id

-----------------------------------------------------------------------------
(* Pagination *)

\* C23: a list tool returns one entry per item of the upstream collection,
\* in upstream order, covering the items of every page.
C23_AllPages ==
    (tool \in ListTools /\ pc = "done" /\ outcome = "ok" /\ envelope # NoneValue
     /\ envelope.status = "success") =>
        envelope.data.entries = received[1].collection

-----------------------------------------------------------------------------
(* C25: upstream call count, no retry *)

\* the invocation has ended with a success envelope
Successful == pc = "done" /\ envelope # NoneValue /\ envelope.status = "success"

\* C25: a successful invocation has issued exactly one upstream call, and
\* update_dns_record exactly two, the read and then the write; when an
\* upstream call fails it is the last call of the invocation; and no call is
\* issued twice.
C25_CallCount ==
    /\ Successful =>
          /\ Len(sent) = (IF tool = "update_dns_record" THEN 2 ELSE 1)
          /\ Len(received) = Len(sent)
    /\ (pc = "done" /\ outcome \in Failures) => Len(sent) = Len(received) + 1
    /\ \A i, j \in 1..Len(sent) : i # j => sent[i] # sent[j]
    /\ tool = "update_dns_record" /\ Len(sent) = 2 =>
          /\ sent[1].op = <<"dns.records.get">>
          /\ sent[2].op = <<"dns.records.edit">>

\* update_dns_record failed at its write, after a read that was answered
C25_Witness ==
    /\ tool = "update_dns_record" /\ pc = "done" /\ outcome \in Failures
    /\ Len(sent) = 2 /\ Len(received) = 1

-----------------------------------------------------------------------------
(* C27: the aggregator on malformed buckets *)

\* what bucket g adds to counter k when malformed members count for nothing
Contribution(g, k) ==
    IF g.kind # "dict" \/ g.sum # "dict" THEN 0
    ELSE IF k \in g.absent \/ k \in g.nulls THEN 0
    ELSE g.c[k]

RECURSIVE SkippingSum(_, _)
SkippingSum(bs, k) ==
    IF bs = << >> THEN 0
    ELSE Contribution(Head(bs), k) + SkippingSum(Tail(bs), k)

\* C27: whatever the bucket list holds, the aggregator does not fail: an entry
\* that is not a mapping, a 'sum' that is not a mapping and a counter that is
\* missing or null add nothing, and every total is the sum of the well-formed
\* counters.
C27_AggregatorNeverFails ==
    (/\ Answered("get_zone_analytics")
     /\ Path(received[1]) \subseteq {"dict", "list", "empty"}
     /\ received[1].groups = "list") =>
        LET bs == received[1].buckets
            d  == envelope.data IN
        /\ envelope # NoneValue
        /\ envelope.status = "success"
        /\ d.requests.total = SkippingSum(bs, "requests")
        /\ d.requests.cached = SkippingSum(bs, "cachedRequests")
        /\ d.bandwidth.total = SkippingSum(bs, "bytes")
        /\ d.bandwidth.cached = SkippingSum(bs, "cachedBytes")
        /\ d.threats.total = SkippingSum(bs, "threats")
        /\ d.pageviews.total = SkippingSum(bs, "pageViews")

-----------------------------------------------------------------------------
(* C29: the two credential resolvers agree *)

\* the mode _get_client selects
ClientMode ==
    IF IsException(get_client) THEN "error"
    ELSE IF "api_token" \in DOMAIN get_client THEN "bearer" ELSE "key"

\* the mode _get_auth_headers selects
HeadersMode ==
    IF IsException(get_auth_headers) THEN "error"
    ELSE IF "Authorization" \in DOMAIN get_auth_headers.headers THEN "bearer"
    ELSE "key"

\* C29: for every combination of token, key and email the SDK client and the
\* HTTP headers are built in the same mode from the same credential: both
\* bearer with the one token, both key and email with the one pair, or both
\* the same configuration error.
C29_ResolversAgree ==
    /\ ClientMode = HeadersMode
    /\ ClientMode = "error" => get_client = get_auth_headers
    /\ ClientMode = "bearer" =>
          get_auth_headers.headers["Authorization"]
              = <<"Bearer ">> \o get_client.api_token
    /\ ClientMode = "key" =>
          /\ get_auth_headers.headers["X-Auth-Email"] = get_client.api_email
          /\ get_auth_headers.headers["X-Auth-Key"] = get_client.api_key

\* with a token and a key pair configured, an HTTP operation has sent the
\* bearer header of the token the SDK client would carry
C29_Witness ==
    /\ CF_API_TOKEN # << >> /\ CF_API_KEY # << >> /\ CF_API_EMAIL # << >>
    /\ pc = "awaiting"
    /\ Transport(tool) = "httpx"
    /\ sent[1].auth = get_auth_headers
    /\ ClientMode = "bearer"

-----------------------------------------------------------------------------
(* C30: the list purge_cache sends *)

\* the segments of s that are not blank, stripped, in order
Segments(s) ==
    LET blank(f) == \A i \in 1..Len(f) : f[i] = " " IN
    [i \in 1..Len(SelectSeq(split(s), LAMBDA f : ~blank(f))) |->
        strip(SelectSeq(split(s), LAMBDA f : ~blank(f))[i])]

\* C30: when purge_cache purges by URL or by tag, the list in the upstream
\* call is not empty and holds the comma-separated segments of the argument,
\* stripped, without the empty ones, in order; an argument of commas and
\* blanks only leads to no purge call with an empty list.
C30_PurgeList ==
    (tool = "purge_cache" /\ Len(sent) = 1 /\ ~args.purge_everything) =>
        LET body == sent[1].body IN
        /\ "files" \in DOMAIN body =>
              body.files # << >> /\ body.files = Segments(args.files)
        /\ "tags" \in DOMAIN body =>
              body.tags # << >> /\ body.tags = Segments(args.tags)

-----------------------------------------------------------------------------
(* C26: termination *)

\* C26: if every issued upstream call eventually returns or raises, an
\* invocation that waits for the upstream eventually ends; it ends with one
\* envelope and no escaping exception; and after its end it issues no
\* upstream call and produces no other envelope: the next step hands the
\* result to the caller.
C26_Termination ==
    /\ [](pc = "awaiting" => <>(pc = "done"))
    /\ [](pc = "done" => (envelope # NoneValue /\ propagated = NoneValue))
    /\ [][pc = "done" => (pc' = "idle" /\ sent' = << >>
                           /\ envelope' = NoneValue)]_vars

\* update_dns_record has ended after both of its calls were answered
C26_Witness ==
    /\ tool = "update_dns_record"
    /\ pc = "done"
    /\ Len(received) = 2
    /\ envelope # NoneValue
    /\ propagated = NoneValue

-----------------------------------------------------------------------------
(* C24: idempotence of reads *)

\* a read has been invoked twice with the same arguments and has ended twice,
\* with no change of the upstream state from the first call on
ReadTwice ==
    /\ pc = "done"
    /\ tool \in ReadOnlyTools
    /\ previous # NoneValue
    /\ previous.envelope # NoneValue
    /\ previous.version = version

\* C24 as stated: a read-only tool invoked twice with the same arguments and
\* no change of upstream state in between returns the same data payload in
\* both envelopes, get_zone_analytics included.
C24_Idempotent ==
    ReadTwice => envelope.data = previous.envelope.data

\* C24 amended: a read-only tool other than get_zone_analytics invoked twice
\* with the same arguments and no change of upstream state in between
\* returns the same data payload in both envelopes; get_zone_analytics does
\* so when both invocations query the same 24-hour window, that is at the
\* same current time.
C24_IdempotentSameWindow ==
    (ReadTwice /\ (tool = "get_zone_analytics" => previous.sent = sent)) =>
        envelope.data = previous.envelope.data

\* a list came back twice with the same entry, a second apart
C24_Witness ==
    /\ ReadTwice
    /\ tool = "list_dns_records"
    /\ clock = 1
    /\ previous.envelope.status = "success"
    /\ Len(previous.envelope.data.entries) = 1
    /\ envelope.data = previous.envelope.data

-----------------------------------------------------------------------------
(* C28: reads have no upstream effect *)

\* an invocation starts, goes on or ends
ToolStep == toolVars' # toolVars /\ pc' \in {"awaiting", "done"}

\* C28: a step of an invocation changes the upstream state only when the tool
\* is one of create_dns_record, update_dns_record, delete_dns_record,
\* purge_cache and the custom hostname mutations; every step of a list_* or
\* get_* tool leaves it as it is, whether the call succeeds or fails.
C28_ReadsLeaveUpstream ==
    [][ToolStep =>
          /\ version' # version =>
                tool \in {"create_dns_record", "update_dns_record",
                          "delete_dns_record", "purge_cache",
                          "create_custom_hostname", "update_custom_hostname",
                          "delete_custom_hostname"}
          /\ tool' \in ReadOnlyTools => version' = version]_vars

\* get_zone_settings has failed, and failed again, on an upstream left as
\* it was
C28_Witness ==
    /\ ReadTwice
    /\ tool = "get_zone_settings"
    /\ outcome \in Failures
    /\ previous.envelope.status = "error"
    /\ version = 0

====
